---- MODULE Spec2Model ----
(***************************************************************************)
(* The AppManager of AppScale (src/AppManager/app_manager_server.py): the  *)
(* start and stop of application server instances under Monit, the         *)
(* background add_routing and kill_instance threads, and the cleaning of   *)
(* old revision sources.                                                   *)
(*                                                                         *)
(* Strings are sequences of one-character strings, so that the string     *)
(* operations of the code (format, join, startswith, rsplit, glob) are     *)
(* computed as the code computes them.                                     *)
(*                                                                         *)
(* The request handlers are tornado coroutines on one IOLoop: the code     *)
(* between two yields of a coroutine is one action, or two actions with    *)
(* no other coroutine in between where a thread it has started can run     *)
(* meanwhile.  add_routing and kill_instance are threads: each of their    *)
(* calls to the outside is one action.                                     *)
(***************************************************************************)
EXTENDS Integers, Sequences, FiniteSets, TLC

(***************************************************************************)
(* Bounds of the model.                                                    *)
(***************************************************************************)
\* Requests the control plane issues in one behaviour.
MaxRequests == 2
\* Attempts of one wait_on_app; the code's budget is
\* ceil(START_APP_TIMEOUT / BACKOFF_TIME) = 180 attempts.
ProbeBudget == 2
\* The highest revision number the projects manager reaches.
MaxRevision == 2
\* NOT_READY answers the AppController gives to one add_routing thread.
MaxNotReady == 1

(***************************************************************************)
(* Program constants.                                                      *)
(***************************************************************************)
HTTP_OK == 200
\* unmonitor(process_name, retries=5)
UNMONITOR_RETRIES == 5
\* max_heap = max_memory - 250
JAVA_OVERHEAD == 250
\* Values of constants imported from modules outside src/.
DEFAULT_MAX_MEMORY == 400
F1_MEMORY == 128
BAD_REQUEST == 400
INTERNAL_ERROR == 500

(***************************************************************************)
(* Strings.                                                                *)
(***************************************************************************)
Digits == <<"0", "1", "2", "3", "4", "5", "6", "7", "8", "9">>

RECURSIVE str(_)
str(n) == IF n < 10 THEN <<Digits[n + 1]>>
          ELSE str(n \div 10) \o <<Digits[(n % 10) + 1]>>

startswith(s, prefix) ==
  /\ Len(s) >= Len(prefix)
  /\ SubSeq(s, 1, Len(prefix)) = prefix

\* s.rsplit(sep, 1)[0] for a one-character sep: what precedes the last sep,
\* and all of s when sep does not occur.
rsplit_head(s, sep) ==
  LET occ == {i \in 1..Len(s) : s[i] = sep}
  IN IF occ = {} THEN s
     ELSE SubSeq(s, 1, (CHOOSE i \in occ : \A j \in occ : j <= i) - 1)

MONIT_INSTANCE_PREFIX == <<"a", "p", "p", "_", "_", "_">>
VERSION_PATH_SEPARATOR == <<"_">>

\* sep.join(parts)
RECURSIVE join(_, _)
join(sep, parts) ==
  IF Len(parts) = 0 THEN <<>>
  ELSE IF Len(parts) = 1 THEN parts[1]
  ELSE parts[1] \o sep \o join(sep, Tail(parts))

\* watch = ''.join([MONIT_INSTANCE_PREFIX, project_id])
group_watch(project_id) == MONIT_INSTANCE_PREFIX \o project_id

\* full_watch = '{}-{}'.format(watch, port); the entry's name in Monit, the
\* name of its PID file, and the <entry> of its appscale-<entry>.cfg.
instance_watch(project_id, port) ==
  group_watch(project_id) \o <<"-">> \o str(port)

\* glob('appscale-{watch}-*.cfg'), on the <entry> part of the file name.
glob_matches(entry, watch) == startswith(entry, watch \o <<"-">>)

revision_key_of(project_id, service_id, version_id, revision) ==
  join(VERSION_PATH_SEPARATOR,
       <<project_id, service_id, version_id, str(revision)>>)

(***************************************************************************)
(* Inputs.                                                                 *)
(***************************************************************************)
ProjA == <<"a">>
ProjAB == <<"a", "-", "b">>
\* An id is_app_name_valid rejects.  The route /projects/([a-z0-9-]+) would not
\* dispatch it; the handlers are modelled as called with it all the same, as
\* their own check of the id allows for.
ProjBad == <<"A">>
Svc == <<"s">>
VerV == <<"v">>
VerJ == <<"j">>
VerR == <<"r">>
RequiredParams == <<"app_port", "service_id", "version_id", "env_vars">>

\* misc.is_app_name_valid, of a module outside this source tree: the pattern
\* [a-z0-9-]+.
ValidChars == {"a", "b", "-"} \cup {Digits[i] : i \in 1..10}
is_app_name_valid(project_id) ==
  /\ Len(project_id) > 0
  /\ \A i \in 1..Len(project_id) : project_id[i] \in ValidChars

\* The versions the projects manager holds; their revision is state.
VersionKeys == {<<ProjA, Svc, VerV>>, <<ProjA, Svc, VerJ>>,
                <<ProjA, Svc, VerR>>, <<ProjAB, Svc, VerV>>}
version_runtime(key) ==
  IF key = <<ProjA, Svc, VerV>> THEN "python27"
  ELSE IF key = <<ProjA, Svc, VerR>> THEN "ruby"
  ELSE "java"
\* The version's instanceClass, "" when it has none.
version_instance_class(key) ==
  IF key = <<ProjA, Svc, VerJ>> THEN "F1" ELSE ""
\* The versions whose revision the model lets the projects manager raise.
UpdatedVersions == {<<ProjA, Svc, VerV>>}

\* INSTANCE_CLASSES.get(instance_class, max_memory)
instance_class_memory(instance_class, max_memory) ==
  IF instance_class = "F1" THEN F1_MEMORY ELSE max_memory

\* The start requests of the model: the project, the config's app_port and
\* version_id, the keys the config holds, and the max_memory of
\* deployment_config's runtime_params (0: not set).
StartInput(project_id, port, version_id, keys, params) ==
  [project |-> project_id, port |-> port, version |-> version_id,
   keys |-> keys, params |-> params]
AllKeys == {RequiredParams[i] : i \in 1..Len(RequiredParams)}
StartInputs ==
  {StartInput(ProjA, port, VerV, AllKeys, 0) : port \in {1, 2}}
  \cup {StartInput(ProjAB, 1, VerV, AllKeys, m) : m \in {0, JAVA_OVERHEAD}}
  \cup {StartInput(ProjA, 1, v, AllKeys, 0) : v \in {VerJ, VerR}}
  \cup {StartInput(ProjAB, 1, VerJ, AllKeys, 0),
        StartInput(ProjBad, 1, VerV, AllKeys, 0)}
  \cup {StartInput(ProjA, 1, VerV, AllKeys \ {k}, 0) : k \in AllKeys}

\* The instances and projects the stop requests of the model name.
StopInstanceInputs ==
  {<<ProjA, 1>>, <<ProjA, 2>>, <<ProjAB, 1>>, <<ProjBad, 1>>}
StopAppInputs == {ProjA, ProjAB, ProjBad}

(***************************************************************************)
(* State.                                                                  *)
(***************************************************************************)
VARIABLES
  requests,       \* the requests issued so far, by number
  nreq,           \* how many requests were issued
  revision,       \* projects_manager: the revision of each version
  trees,          \* the revision keys whose source is unpacked
  monit_configs,  \* Monit's config files: entry name -> what the file says
  monit_entries,  \* the entries Monit has loaded: name -> entry
  procs,          \* the entry names whose AppServer process runs
  pidfiles,       \* the entry names that have a PID file
  logrotate,      \* the projects that have a logrotate script
  route,          \* the add_routing thread of each request
  kill,           \* the kill_instance thread of each request
  gc_active,      \* active_revisions of the latest clean_old_revisions call
  answers,        \* the answers a call under test is given, in order
  outcome         \* what the call under test made of them

vars == <<requests, nreq, revision, trees, monit_configs, monit_entries,
          procs, pidfiles, logrotate, route, kill, gc_active, answers,
          outcome>>

ReqIds == 1..MaxRequests

NoException == [class |-> "none", code |-> 0]
BadConfigurationException ==
  [class |-> "BadConfigurationException", code |-> 0]
AssertionError == [class |-> "AssertionError", code |-> 0]
IOError == [class |-> "IOError", code |-> 0]
SourceError == [class |-> "SourceError", code |-> 0]
ProcessNotFound == [class |-> "ProcessNotFound", code |-> 0]
\* HTTPError is tornado.httpclient.HTTPError in this module.
HTTPError(code) == [class |-> "tornado.httpclient.HTTPError", code |-> code]

NoRequest ==
  [kind |-> "none", project |-> <<>>, port |-> 0, version |-> <<>>,
   keys |-> {}, pc |-> "none", error |-> NoException, response |-> 0,
   revision_key |-> <<>>, max_memory |-> 0, entries |-> {},
   monit |-> "", unmonitor |-> "", remove |-> "", rotate |-> "",
   cleaned |-> FALSE, web_xml |-> {}, env_from |-> <<>>]

NoRoute == [pc |-> "none", retries |-> 0, result |-> "none", calls |-> 0,
            not_ready |-> 0]
NoKill == [pc |-> "none", signals |-> <<>>]
NoOutcome == [call |-> "none", exc |-> NoException, calls |-> 0,
              result |-> "none", response |-> 0]

\* An entry of Monit that is no AppServer instance.
OtherEntry == <<"x">>
OtherEntries ==
  (OtherEntry :> [group |-> <<>>, rev |-> <<>>, port |-> 0,
                  monitored |-> TRUE])

\* What create_config_file writes, as far as the model reads it.
config_of(project_id, port, revision_key) ==
  [group |-> group_watch(project_id), rev |-> revision_key, port |-> port]

\* The entry Monit loads from a config file.
entry_of(config, monitored) ==
  [group |-> config.group, rev |-> config.rev, port |-> config.port,
   monitored |-> monitored]

\* An instance that an earlier run of the AppManager started and that Monit
\* still supervises.
OldName == instance_watch(ProjA, 1)
OldConfig == config_of(ProjA, 1, revision_key_of(ProjA, Svc, VerV, 1))

\* The AppManager as its main block leaves it: no request yet.
InitManager ==
  /\ requests = [i \in ReqIds |-> NoRequest]
  /\ nreq = 0
  /\ revision = [k \in VersionKeys |-> 1]
  /\ route = [i \in ReqIds |-> NoRoute]
  /\ kill = [i \in ReqIds |-> NoKill]
  /\ gc_active = {}
  /\ outcome = NoOutcome

\* A node that runs no instance.
InitEmptyNode ==
  /\ trees = {}
  /\ monit_configs = <<>>
  /\ monit_entries = OtherEntries
  /\ procs = {}
  /\ pidfiles = {}
  /\ logrotate = {}

\* A node that runs the instance an earlier AppManager started.
InitOldInstance ==
  /\ trees = {OldConfig.rev}
  /\ monit_configs = (OldName :> OldConfig)
  /\ monit_entries = (OldName :> entry_of(OldConfig, TRUE)) @@ OtherEntries
  /\ procs = {OldName}
  /\ pidfiles = {OldName}
  /\ logrotate = {ProjA}

\* A node on which an earlier AppManager started and then stopped that
\* instance: Monit has dropped the entry and the process is gone, while its PID
\* file, which nothing removes, is still there.
InitStoppedInstance ==
  /\ trees = {OldConfig.rev}
  /\ monit_configs = <<>>
  /\ monit_entries = OtherEntries
  /\ procs = {}
  /\ pidfiles = {OldName}
  /\ logrotate = {ProjA}

Init ==
  /\ InitManager
  /\ InitEmptyNode \/ InitOldInstance \/ InitStoppedInstance
  /\ answers = <<>>

(***************************************************************************)
(* The request handlers' answers.                                          *)
(***************************************************************************)
\* AppHandler.post, AppHandler.delete, InstanceHandler.delete: a
\* BadConfigurationException is raised again as HTTPError(BAD_REQUEST).
handler_raises(exc) ==
  IF exc.class = "BadConfigurationException" THEN HTTPError(BAD_REQUEST)
  ELSE exc

\* The status tornado.web.RequestHandler answers with: 200 when the handler
\* returned, the status of a tornado.web.HTTPError, and 500 for every other
\* exception; tornado.httpclient.HTTPError is such an other exception.
send_status(exc) ==
  IF exc.class = "none" THEN HTTP_OK
  ELSE IF exc.class = "tornado.web.HTTPError" THEN exc.code
  ELSE INTERNAL_ERROR

\* The request as it is once its handler has finished with exception exc.
finished(req, exc) ==
  [req EXCEPT !.pc = "done", !.error = exc,
              !.response = send_status(handler_raises(exc))]

(***************************************************************************)
(* start_app.                                                              *)
(***************************************************************************)
\* The handlers are coroutines of one IOLoop: a coroutine runs from one yield
\* to the next with no other coroutine in between.  Only threads and other
\* processes run while start_app is between the start of its add_routing
\* thread and its end.
ioloop_free == \A i \in ReqIds : requests[i].pc # "logrotate"

\* Lines 179-196: the checks before the version's details are read.
start_app_validate(project_id, version_id, keys) ==
  IF \E i \in 1..Len(RequiredParams) : RequiredParams[i] \notin keys
    THEN BadConfigurationException
  ELSE IF ~is_app_name_valid(project_id) THEN BadConfigurationException
  ELSE IF <<project_id, Svc, version_id>> \notin VersionKeys
    THEN BadConfigurationException
  ELSE NoException

\* Lines 199-203.
max_memory_of(key, params) ==
  LET max_memory == IF params = 0 THEN DEFAULT_MAX_MEMORY ELSE params
  IN IF version_instance_class(key) # ""
       THEN instance_class_memory(version_instance_class(key), max_memory)
       ELSE max_memory

\* Lines 234-235: max_heap = max_memory - 250; max_heap <= 0 is rejected.
java_heap_rejected_lt(max_memory) == max_memory - JAVA_OVERHEAD < 0
java_heap_rejected(max_memory) == max_memory - JAVA_OVERHEAD <= 0

\* Line 698: the directory create_java_start_cmd launches, the unpacked tree
\* of the revision.
UNPACK_ROOT == "UNPACK_ROOT"
revision_base(revision_key) == <<UNPACK_ROOT, revision_key>>

\* Line 543: the directory find_web_xml walks.
app_dir(app_name) == <<"/var/apps", app_name>>

\* The directories a Java start reads: those of them under the roots `roots`
\* hold a WEB-INF/appengine-web.xml.
Roots == {UNPACK_ROOT, "/var/apps"}
java_dirs(app_name, revision_key, roots) ==
  {dir \in {revision_base(revision_key), app_dir(app_name)} :
     dir[1] \in roots}
NoFile == <<>>

\* find_web_inf(revision_base), of appscale.admin.instance_manager.utils: the
\* WEB-INF directory that holds appengine-web.xml, or BadConfigurationException
\* when the tree has none.  with_web_xml is the set of directories that hold
\* a WEB-INF/appengine-web.xml.
find_web_inf(source_path, with_web_xml) ==
  IF source_path \in with_web_xml
    THEN [exc |-> NoException, file |-> source_path]
    ELSE [exc |-> BadConfigurationException, file |-> NoFile]

\* find_web_xml (lines 531-562): the appengine-web.xml under app_dir, or
\* BadConfigurationException when there is none.
find_web_xml(app_name, with_web_xml) ==
  IF app_dir(app_name) \in with_web_xml
    THEN [exc |-> NoException, file |-> app_dir(app_name)]
    ELSE [exc |-> BadConfigurationException, file |-> NoFile]

\* Lines 215-251: the exception that building the start command and the
\* environment raises.
start_cmd_error(runtime, max_memory, app_name, revision_key, with_web_xml) ==
  IF runtime \in {"python27", "go", "php"} THEN NoException
  ELSE IF runtime = "java" THEN
    IF java_heap_rejected(max_memory) THEN BadConfigurationException
    ELSE IF find_web_inf(revision_base(revision_key), with_web_xml).exc
              # NoException
      THEN BadConfigurationException
    ELSE find_web_xml(app_name, with_web_xml).exc
  ELSE BadConfigurationException

\* Lines 239-248: whether start_app comes to look for appengine-web.xml, and
\* the file create_java_app_env takes the environment from.
searches_web_xml(runtime, max_memory) ==
  runtime = "java" /\ ~java_heap_rejected(max_memory)
java_env_source(app_name, revision_key, with_web_xml) ==
  IF find_web_inf(revision_base(revision_key), with_web_xml).exc # NoException
    THEN NoFile
    ELSE find_web_xml(app_name, with_web_xml).file

\* start_app up to its yield of source_manager.ensure_source.
StartApp(in) ==
  /\ nreq < MaxRequests
  /\ ioloop_free
  /\ LET i == nreq + 1
         key == <<in.project, Svc, in.version>>
         exc == start_app_validate(in.project, in.version, in.keys)
         req == [NoRequest EXCEPT !.kind = "start", !.project = in.project,
                                  !.port = in.port, !.version = in.version,
                                  !.keys = in.keys]
     IN /\ nreq' = i
        /\ requests' = [requests EXCEPT ![i] =
             IF exc # NoException THEN finished(req, exc)
             ELSE [req EXCEPT
                     !.pc = "ensure_source",
                     !.max_memory = max_memory_of(key, in.params),
                     !.revision_key = revision_key_of(in.project, Svc,
                                        in.version, revision[key])]]
  /\ UNCHANGED <<revision, trees, monit_configs, monit_entries, procs,
                 pidfiles, logrotate, route, kill, gc_active, answers,
                 outcome>>

\* source_manager.ensure_source, which is not under src/: it unpacks the
\* revision's source, or fails.
EnsureSource(i, ok) ==
  /\ requests[i].pc = "ensure_source"
  /\ IF ok
       THEN /\ trees' = trees \cup {requests[i].revision_key}
            /\ requests' = [requests EXCEPT ![i].pc = "resume"]
       ELSE /\ trees' = trees
            /\ requests' = [requests EXCEPT
                              ![i] = finished(requests[i], SourceError)]
  /\ UNCHANGED <<nreq, revision, monit_configs, monit_entries, procs,
                 pidfiles, logrotate, route, kill, gc_active, answers,
                 outcome>>

\* The add_routing thread as threading.Thread(...).start() starts it.
new_route == [NoRoute EXCEPT !.pc = "probe", !.retries = ProbeBudget]

\* Lines 256-264: create_config_file writes the config file of `name`.
create_config_file_none(configs, name, config) == configs
create_config_file_numbered(configs, name, config) ==
  IF name \in DOMAIN configs THEN ((name \o <<"~">>) :> config) @@ configs
  ELSE (name :> config) @@ configs
create_config_file(configs, name, config) == (name :> config) @@ configs

\* Lines 269-271: the assert on what monit_interface.start returns.
monit_start_error_none(monit_ok) == NoException
monit_start_error(monit_ok) ==
  IF monit_ok THEN NoException ELSE AssertionError

\* monit_interface.start of the entry `name`: Monit loads the entry from its
\* config file and monitors it, whether it had the entry or not, and leaves
\* its other entries alone.
monit_start(entries, name, config) ==
  (name :> entry_of(config, TRUE)) @@ entries

\* start_app from the return of ensure_source to the start of its
\* add_routing thread (lines 210-276).
StartAppResume(i, monit_ok, roots) ==
  /\ requests[i].pc = "resume"
  /\ ioloop_free
  /\ LET runtime == version_runtime(<<requests[i].project, Svc,
                                      requests[i].version>>)
         with_web_xml == java_dirs(requests[i].project,
                                   requests[i].revision_key, roots)
         searches == searches_web_xml(runtime, requests[i].max_memory)
         req == IF searches
                  THEN [requests[i] EXCEPT
                          !.web_xml = with_web_xml,
                          !.env_from = java_env_source(
                             requests[i].project, requests[i].revision_key,
                             with_web_xml)]
                  ELSE requests[i]
         name == instance_watch(req.project, req.port)
         config == config_of(req.project, req.port, req.revision_key)
         exc == start_cmd_error(runtime, req.max_memory, req.project,
                                req.revision_key, with_web_xml)
         asked == [req EXCEPT !.monit = IF monit_ok THEN "started"
                                        ELSE "failed"]
     IN IF exc # NoException
          THEN /\ requests' = [requests EXCEPT ![i] = finished(req, exc)]
               /\ UNCHANGED <<monit_configs, monit_entries, route>>
          ELSE /\ monit_configs' =
                    create_config_file(monit_configs, name, config)
               /\ IF monit_start_error(monit_ok) # NoException
                    THEN /\ requests' = [requests EXCEPT ![i] =
                                finished(asked, monit_start_error(monit_ok))]
                         /\ UNCHANGED <<monit_entries, route>>
                    ELSE /\ monit_entries' =
                              IF monit_ok
                                THEN monit_start(monit_entries, name, config)
                                ELSE monit_entries
                         /\ route' = [route EXCEPT ![i] = new_route]
                         /\ requests' = [requests EXCEPT ![i] =
                              [asked EXCEPT !.pc = "logrotate"]]
  /\ UNCHANGED <<nreq, revision, trees, procs, pidfiles, logrotate, kill,
                 gc_active, answers, outcome>>

\* setup_logrotate (lines 287-320): open() or write() raises when the
\* script cannot be written, and nothing catches it.
setup_logrotate(ok) == IF ok THEN NoException ELSE IOError

\* Lines 275-276: start_app starts the thread and never joins it, so it goes
\* on whatever the thread has come to.
goes_on_joined(thread) == thread.pc = "done"
goes_on(thread) == TRUE

\* start_app from the start of its thread to its end (lines 278-285).
StartAppLogrotate(i, ok) ==
  /\ requests[i].pc = "logrotate"
  /\ goes_on(route[i])
  /\ logrotate' = IF ok THEN logrotate \cup {requests[i].project}
                        ELSE logrotate
  /\ requests' = [requests EXCEPT ![i] =
       finished([@ EXCEPT !.rotate = IF ok THEN "written" ELSE "failed"],
                setup_logrotate(ok))]
  /\ UNCHANGED <<nreq, revision, trees, monit_configs, monit_entries, procs,
                 pidfiles, route, kill, gc_active, answers, outcome>>

(***************************************************************************)
(* add_routing and wait_on_app.                                            *)
(***************************************************************************)
\* What one attempt of wait_on_app gets: the status of an HTTP response, or
\* 0 for an IOError.  NoRedirection.http_response returns every response as
\* it is, so opener.open raises for no status.
HealthAnswers == {0, 200, 302, 404, 500}

\* One turn of the loop of wait_on_app (lines 497-508) with `retries`
\* attempts left: any response returns True; an IOError takes one attempt,
\* and the loop ends with False when none is left.
wait_on_app_step_2xx(retries, answer) ==
  IF answer # 0 /\ answer >= 200 /\ answer < 400
    THEN [retries |-> retries, result |-> "true"]
  ELSE IF retries - 1 > 0 THEN [retries |-> retries - 1, result |-> "none"]
  ELSE [retries |-> retries - 1, result |-> "false"]
wait_on_app_step(retries, answer) ==
  IF answer # 0 THEN [retries |-> retries, result |-> "true"]
  ELSE IF retries - 1 > 0 THEN [retries |-> retries - 1, result |-> "none"]
  ELSE [retries |-> retries - 1, result |-> "false"]

\* wait_on_app on the answers its attempts get, in order: its result and
\* the number of attempts it made.
RECURSIVE wait_on_app_from(_, _, _)
wait_on_app_from(retries, ans, made) ==
  IF retries <= 0 \/ ans = <<>>
    THEN [result |-> "false", attempts |-> made]
  ELSE LET step == wait_on_app_step(retries, Head(ans))
       IN IF step.result = "none"
            THEN wait_on_app_from(step.retries, Tail(ans), made + 1)
            ELSE [result |-> step.result, attempts |-> made + 1]
wait_on_app(ans) == wait_on_app_from(ProbeBudget, ans, 0)

\* Lines 145-150: what add_routing does with the result of wait_on_app.
after_probe_always(result) == "register"
after_probe(result) == IF result = "true" THEN "register" ELSE "done"

\* Lines 155-160: what add_routing does with the AppController's answer.
after_register_once(result) == "done"
after_register_always(result) == "register"
after_register(result) == IF result = "NOT_READY" THEN "register" ELSE "done"

RoutingAnswers == {"OK", "NOT_READY", "ERROR"}

\* Whether an AppServer process listens on the port.
listening(port) ==
  \E project_id \in {ProjA, ProjAB} :
    instance_watch(project_id, port) \in procs

\* One attempt of the wait_on_app of add_routing thread i.
WaitOnAppAttempt(i, answer) ==
  /\ route[i].pc = "probe"
  /\ answer # 0 => listening(requests[i].port)
  /\ LET step == wait_on_app_step(route[i].retries, answer)
     IN route' = [route EXCEPT ![i] =
          IF step.result = "none"
            THEN [@ EXCEPT !.retries = step.retries]
            ELSE [@ EXCEPT !.retries = step.retries,
                           !.result = step.result,
                           !.pc = after_probe(step.result)]]
  /\ UNCHANGED <<requests, nreq, revision, trees, monit_configs,
                 monit_entries, procs, pidfiles, logrotate, kill, gc_active,
                 answers, outcome>>

\* One acc.add_routing_for_appserver call of add_routing thread i.
AddRoutingCall(i, answer) ==
  /\ route[i].pc = "register"
  /\ answer = "NOT_READY" => route[i].not_ready < MaxNotReady
  /\ route' = [route EXCEPT ![i] =
       [@ EXCEPT !.calls = @ + 1,
                 !.not_ready = IF answer = "NOT_READY" THEN @ + 1 ELSE @,
                 !.pc = after_register(answer)]]
  /\ UNCHANGED <<requests, nreq, revision, trees, monit_configs,
                 monit_entries, procs, pidfiles, logrotate, kill, gc_active,
                 answers, outcome>>

(***************************************************************************)
(* unmonitor.                                                              *)
(***************************************************************************)
\* unmonitor(process_name, retries) on the statuses Monit answers its POSTs
\* with, in order: the exception it ends with and the POSTs it made.
RECURSIVE unmonitor_one_less(_, _)
unmonitor_one_less(ans, retries) ==
  LET code == Head(ans)
  IN IF code = HTTP_OK THEN [exc |-> NoException, calls |-> 1]
     ELSE IF code = 404 THEN [exc |-> ProcessNotFound, calls |-> 1]
     ELSE IF code = 503 THEN
       IF retries - 1 <= 0 THEN [exc |-> HTTPError(code), calls |-> 1]
       ELSE LET rest == unmonitor_one_less(Tail(ans), retries - 1)
            IN [exc |-> rest.exc, calls |-> rest.calls + 1]
     ELSE [exc |-> HTTPError(code), calls |-> 1]
RECURSIVE unmonitor_404_acked(_, _)
unmonitor_404_acked(ans, retries) ==
  LET code == Head(ans)
  IN IF code = HTTP_OK \/ code = 404 THEN [exc |-> NoException, calls |-> 1]
     ELSE IF code = 503 THEN
       IF retries - 1 < 0 THEN [exc |-> HTTPError(code), calls |-> 1]
       ELSE LET rest == unmonitor_404_acked(Tail(ans), retries - 1)
            IN [exc |-> rest.exc, calls |-> rest.calls + 1]
     ELSE [exc |-> HTTPError(code), calls |-> 1]
RECURSIVE unmonitor(_, _)
unmonitor(ans, retries) ==
  LET code == Head(ans)
  IN IF code = HTTP_OK THEN [exc |-> NoException, calls |-> 1]
     ELSE IF code = 404 THEN [exc |-> ProcessNotFound, calls |-> 1]
     ELSE IF code = 503 THEN
       IF retries - 1 < 0 THEN [exc |-> HTTPError(code), calls |-> 1]
       ELSE LET rest == unmonitor(Tail(ans), retries - 1)
            IN [exc |-> rest.exc, calls |-> rest.calls + 1]
     ELSE [exc |-> HTTPError(code), calls |-> 1]

\* n answers of 503 and then `final`, again and again.
unmonitor_answers(n, final) ==
  [k \in 1..(UNMONITOR_RETRIES + 2) |-> IF k <= n THEN 503 ELSE final]

\* What Monit can answer an unmonitor of `name` with, when it is not busy:
\* 200 for an entry it has, 404 for one it does not have, or an error.
monit_final_answers(name) ==
  (IF name \in DOMAIN monit_entries THEN {HTTP_OK} ELSE {404})
  \cup {INTERNAL_ERROR}

(***************************************************************************)
(* clean_old_sources.                                                      *)
(***************************************************************************)
\* Lines 367-378: the active revisions, from Monit's entry names and the
\* projects manager.
entry_revision(entry) ==
  rsplit_head(SubSeq(entry, Len(MONIT_INSTANCE_PREFIX) + 1, Len(entry)), "-")
app_entries(entries) ==
  {entry \in entries : startswith(entry, MONIT_INSTANCE_PREFIX)}
active_revisions(entries, revisions) ==
  {entry_revision(entry) : entry \in app_entries(entries)}
  \cup {revision_key_of(key[1], key[2], key[3], revisions[key]) :
          key \in VersionKeys}

\* source_manager.clean_old_revisions, which is not under src/: it deletes
\* the unpacked trees whose key is not active.
clean_old_revisions(unpacked, active) == unpacked \cap active

\* Monit's answer to get_entries reaches clean_old_sources.
MonitGetEntries(i, ok) ==
  /\ requests[i].pc = "get_entries"
  /\ ioloop_free
  /\ requests' = [requests EXCEPT ![i] =
       IF ok THEN [@ EXCEPT !.entries = DOMAIN monit_entries, !.pc = "clean"]
       ELSE finished(@, IOError)]
  /\ UNCHANGED <<nreq, revision, trees, monit_configs, monit_entries, procs,
                 pidfiles, logrotate, route, kill, gc_active, answers,
                 outcome>>

\* clean_old_sources from the return of get_entries to its end.
CleanOldSources(i) ==
  /\ requests[i].pc = "clean"
  /\ ioloop_free
  /\ LET active == active_revisions(requests[i].entries, revision)
     IN /\ gc_active' = active
        /\ trees' = clean_old_revisions(trees, active)
  /\ requests' = [requests EXCEPT ![i].cleaned = TRUE, ![i].pc = "return"]
  /\ UNCHANGED <<nreq, revision, monit_configs, monit_entries, procs,
                 pidfiles, logrotate, route, kill, answers, outcome>>

(***************************************************************************)
(* stop_app_instance, stop_app and kill_instance.                          *)
(***************************************************************************)
\* monit reload: Monit loads the entries of the config files there are.
monit_reload_monitors(entries, configs) ==
  [name \in DOMAIN configs |-> entry_of(configs[name], TRUE)] @@ OtherEntries
monit_reload(entries, configs) ==
  [name \in DOMAIN configs |->
     entry_of(configs[name],
              IF name \in DOMAIN entries THEN entries[name].monitored
              ELSE TRUE)]
  @@ OtherEntries

\* os.remove of the config files `names`; it fails for a file that is not
\* there, and for every file when rm_ok is false.
remove_configs_none(configs, names, rm_ok) == configs
remove_configs(configs, names, rm_ok) ==
  IF rm_ok THEN [name \in DOMAIN configs \ names |-> configs[name]]
  ELSE configs

\* Lines 393-411: how stop_app_instance goes on after reading the PID file
\* and calling unmonitor.
stop_instance_error_no_pidfile(project_id, has_pidfile, unmonitored) ==
  IF ~is_app_name_valid(project_id) THEN BadConfigurationException
  ELSE unmonitored.exc
stop_instance_error(project_id, has_pidfile, unmonitored) ==
  IF ~is_app_name_valid(project_id) THEN BadConfigurationException
  ELSE IF ~has_pidfile THEN HTTPError(INTERNAL_ERROR)
  ELSE unmonitored.exc

\* Lines 399-405: stop_app_instance reads the PID file and leaves it where
\* it is.
pidfiles_after_stop_removed(files, name) == files \ {name}
pidfiles_after_stop(files, name) == files

\* Lines 409-411: stop_app_instance catches ProcessNotFound and returns.
returns_at_once_never(exc) == FALSE
returns_at_once(exc) == exc = ProcessNotFound

\* stop_app_instance up to the yield of get_entries in clean_old_sources.
StopAppInstance(in, n503, final, rm_ok, reload_ok) ==
  /\ nreq < MaxRequests
  /\ ioloop_free
  /\ LET i == nreq + 1
         name == instance_watch(in[1], in[2])
         req == [NoRequest EXCEPT !.kind = "stop_instance",
                                  !.project = in[1], !.port = in[2]]
         unmonitored == unmonitor(unmonitor_answers(n503, final),
                                  UNMONITOR_RETRIES)
         exc == stop_instance_error(in[1], name \in pidfiles, unmonitored)
         called == is_app_name_valid(in[1]) /\ name \in pidfiles
         configs == remove_configs(monit_configs, {name}, rm_ok)
     IN /\ final \in monit_final_answers(name)
        /\ nreq' = i
        /\ IF returns_at_once(exc)
             THEN /\ requests' = [requests EXCEPT ![i] =
                        finished([req EXCEPT !.unmonitor = "not_found"],
                                 NoException)]
                  /\ UNCHANGED <<monit_configs, monit_entries>>
           ELSE IF exc # NoException
             THEN /\ requests' = [requests EXCEPT ![i] =
                        finished([req EXCEPT !.unmonitor =
                                    IF called THEN "error" ELSE ""], exc)]
                  /\ UNCHANGED <<monit_configs, monit_entries>>
           ELSE /\ monit_configs' = configs
                /\ monit_entries' =
                     LET unmon == [monit_entries EXCEPT
                                     ![name].monitored = FALSE]
                     IN IF reload_ok THEN monit_reload(unmon, configs)
                        ELSE unmon
                /\ requests' = [requests EXCEPT ![i] =
                     [req EXCEPT !.unmonitor = "ok",
                                 !.remove = IF name \in DOMAIN monit_configs
                                               /\ rm_ok
                                            THEN "removed" ELSE "failed",
                                 !.pc = "get_entries"]]
        /\ pidfiles' = IF exc = NoException
                         THEN pidfiles_after_stop(pidfiles, name)
                         ELSE pidfiles
  /\ UNCHANGED <<revision, trees, procs, logrotate, route, kill, gc_active,
                 answers, outcome>>

\* remove_logrotate (lines 462-480): os.remove of the project's logrotate
\* script; a failure is caught and logged.
remove_logrotate_none(scripts, project_id, ok) == scripts
remove_logrotate(scripts, project_id, ok) ==
  IF ok THEN scripts \ {project_id} ELSE scripts

\* The entries of Monit's group `watch`.
group_entries(watch) ==
  {name \in DOMAIN monit_entries : monit_entries[name].group = watch}

\* stop_app up to the yield of get_entries in clean_old_sources.  Monit
\* stops a group that has entries, or fails.
StopApp(project_id, monit_ok, rm_ok, logrotate_ok) ==
  /\ nreq < MaxRequests
  /\ ioloop_free
  /\ LET i == nreq + 1
         watch == group_watch(project_id)
         req == [NoRequest EXCEPT !.kind = "stop_app",
                                  !.project = project_id]
         stopped == group_entries(watch)
         files == {name \in DOMAIN monit_configs : glob_matches(name, watch)}
     IN /\ nreq' = i
        /\ monit_ok => stopped # {}
        /\ logrotate_ok => project_id \in logrotate
        /\ IF ~is_app_name_valid(project_id)
             THEN /\ requests' = [requests EXCEPT ![i] =
                        finished(req, BadConfigurationException)]
                  /\ UNCHANGED <<monit_configs, monit_entries, procs,
                                 logrotate>>
           ELSE IF ~monit_ok
             THEN /\ requests' = [requests EXCEPT ![i] =
                        finished([req EXCEPT !.monit = "failed"],
                                 HTTPError(INTERNAL_ERROR))]
                  /\ UNCHANGED <<monit_configs, monit_entries, procs,
                                 logrotate>>
           ELSE /\ monit_entries' =
                     [name \in DOMAIN monit_entries |->
                        IF name \in stopped
                          THEN [monit_entries[name] EXCEPT
                                  !.monitored = FALSE]
                          ELSE monit_entries[name]]
                /\ procs' = procs \ stopped
                /\ monit_configs' = remove_configs(monit_configs, files, rm_ok)
                /\ logrotate' =
                     remove_logrotate(logrotate, project_id, logrotate_ok)
                /\ requests' = [requests EXCEPT ![i] =
                     [req EXCEPT !.monit = "stopped",
                                 !.remove = IF rm_ok THEN "removed"
                                            ELSE "failed",
                                 !.rotate = IF logrotate_ok THEN "removed"
                                            ELSE "failed",
                                 !.pc = "get_entries"]]
  /\ UNCHANGED <<revision, trees, pidfiles, route, kill, gc_active, answers,
                 outcome>>

\* stop_app_instance and stop_app from the return of clean_old_sources to
\* their end: stop_app_instance starts its kill_instance thread.
StopReturn(i) ==
  /\ requests[i].pc = "return"
  /\ ioloop_free
  /\ requests' = [requests EXCEPT ![i] = finished(@, NoException)]
  /\ kill' = IF requests[i].kind = "stop_instance"
               THEN [kill EXCEPT ![i].pc = "terminate"]
               ELSE kill
  /\ UNCHANGED <<nreq, revision, trees, monit_configs, monit_entries, procs,
                 pidfiles, logrotate, route, gc_active, answers, outcome>>

\* kill_instance, lines 329-330: psutil.Process raises for a process that
\* is gone, and terminate sends SIGTERM.
KillTerminate(i) ==
  /\ kill[i].pc = "terminate"
  /\ LET name == instance_watch(requests[i].project, requests[i].port)
     IN kill' = [kill EXCEPT ![i] =
          IF name \in procs
            THEN [pc |-> "wait", signals |-> <<"SIGTERM">>]
            ELSE [pc |-> "done", signals |-> <<>>]]
  /\ UNCHANGED <<requests, nreq, revision, trees, monit_configs,
                 monit_entries, procs, pidfiles, logrotate, route, gc_active,
                 answers, outcome>>

\* kill_instance, lines 331-334: the process exits within
\* MAX_INSTANCE_RESPONSE_TIME, or is sent SIGKILL.
KillWait(i, exited) ==
  /\ kill[i].pc = "wait"
  /\ LET name == instance_watch(requests[i].project, requests[i].port)
     IN /\ procs' = procs \ {name}
        /\ kill' = [kill EXCEPT ![i] =
             [pc |-> "done",
              signals |-> IF exited THEN @.signals
                          ELSE Append(@.signals, "SIGKILL")]]
  /\ UNCHANGED <<requests, nreq, revision, trees, monit_configs,
                 monit_entries, pidfiles, logrotate, route, gc_active,
                 answers, outcome>>

(***************************************************************************)
(* The environment.                                                        *)
(***************************************************************************)
\* Monit starts the process of a monitored entry that does not run; the
\* AppServer writes its PID file.
MonitStartsProcess(name) ==
  /\ name \in DOMAIN monit_entries
  /\ name # OtherEntry
  /\ monit_entries[name].monitored
  /\ name \notin procs
  /\ procs' = procs \cup {name}
  /\ pidfiles' = pidfiles \cup {name}
  /\ UNCHANGED <<requests, nreq, revision, trees, monit_configs,
                 monit_entries, logrotate, route, kill, gc_active, answers,
                 outcome>>

\* The PID file of a process that has exited goes away: whether and when
\* an AppServer that exits removes its PID file is not this module's doing.
PidfileRemoved(name) ==
  /\ name \in pidfiles
  /\ name \notin procs
  /\ pidfiles' = pidfiles \ {name}
  /\ UNCHANGED <<requests, nreq, revision, trees, monit_configs,
                 monit_entries, procs, logrotate, route, kill, gc_active,
                 answers, outcome>>

\* A new revision of a version reaches the projects manager.
UpdateVersion(key) ==
  /\ revision[key] < MaxRevision
  /\ revision' = [revision EXCEPT ![key] = @ + 1]
  /\ UNCHANGED <<requests, nreq, trees, monit_configs, monit_entries, procs,
                 pidfiles, logrotate, route, kill, gc_active, answers,
                 outcome>>

InstanceNames ==
  {instance_watch(project_id, port) :
     project_id \in {ProjA, ProjAB}, port \in {1, 2}}

Next ==
  \/ \E in \in StartInputs : StartApp(in)
  \/ \E i \in ReqIds, ok \in BOOLEAN : EnsureSource(i, ok)
  \/ \E i \in ReqIds, m \in BOOLEAN, w \in SUBSET Roots :
       StartAppResume(i, m, w)
  \/ \E i \in ReqIds, ok \in BOOLEAN : StartAppLogrotate(i, ok)
  \/ \E i \in ReqIds, answer \in HealthAnswers : WaitOnAppAttempt(i, answer)
  \/ \E i \in ReqIds, answer \in RoutingAnswers : AddRoutingCall(i, answer)
  \/ \E in \in StopInstanceInputs, n503 \in 0..(UNMONITOR_RETRIES + 1),
        final \in {HTTP_OK, 404, INTERNAL_ERROR}, rm \in BOOLEAN,
        rl \in BOOLEAN :
       StopAppInstance(in, n503, final, rm, rl)
  \/ \E p \in StopAppInputs, m \in BOOLEAN, rm \in BOOLEAN, l \in BOOLEAN :
       StopApp(p, m, rm, l)
  \/ \E i \in ReqIds, ok \in BOOLEAN : MonitGetEntries(i, ok)
  \/ \E i \in ReqIds : CleanOldSources(i)
  \/ \E i \in ReqIds : StopReturn(i)
  \/ \E i \in ReqIds : KillTerminate(i)
  \/ \E i \in ReqIds, exited \in BOOLEAN : KillWait(i, exited)
  \/ \E name \in InstanceNames : MonitStartsProcess(name)
  \/ \E name \in InstanceNames : PidfileRemoved(name)
  \/ \E key \in UpdatedVersions : UpdateVersion(key)

Spec == Init /\ [][Next]_vars

(***************************************************************************)
(* unmonitor and wait_on_app on every sequence of answers: a second        *)
(* specification, which draws the answers and makes the call.              *)
(***************************************************************************)
UnmonitorAnswers == {HTTP_OK, 404, INTERNAL_ERROR, 503}
UnmonitorSeqs == [1..(UNMONITOR_RETRIES + 2) -> UnmonitorAnswers]
HealthSeqs == [1..(ProbeBudget + 1) -> HealthAnswers]

InitCalls ==
  /\ InitManager
  /\ InitEmptyNode
  /\ answers \in UnmonitorSeqs \cup HealthSeqs

frame_calls ==
  UNCHANGED <<requests, nreq, revision, trees, monit_configs, monit_entries,
              procs, pidfiles, logrotate, route, kill, gc_active, answers>>

\* stop_app_instance calls unmonitor(watch) for an instance that has a PID
\* file; Monit answers the POSTs with `answers`.
CallUnmonitor ==
  /\ outcome.call = "none"
  /\ answers \in UnmonitorSeqs
  /\ LET unmonitored == unmonitor(answers, UNMONITOR_RETRIES)
         exc == stop_instance_error(ProjA, TRUE, unmonitored)
     IN outcome' = [call |-> "unmonitor", exc |-> unmonitored.exc,
                    calls |-> unmonitored.calls, result |-> "none",
                    response |-> IF exc = ProcessNotFound THEN HTTP_OK
                                 ELSE IF exc = NoException THEN 0
                                 ELSE send_status(handler_raises(exc))]
  /\ frame_calls

\* add_routing calls wait_on_app(port); the attempts get `answers`.
CallWaitOnApp ==
  /\ outcome.call = "none"
  /\ answers \in HealthSeqs
  /\ LET waited == wait_on_app(answers)
     IN outcome' = [call |-> "wait_on_app", exc |-> NoException,
                    calls |-> waited.attempts, result |-> waited.result,
                    response |-> 0]
  /\ frame_calls

NextCalls == CallUnmonitor \/ CallWaitOnApp

SpecCalls == InitCalls /\ [][NextCalls]_vars

(***************************************************************************)
(* The properties.                                                         *)
(***************************************************************************)
\* The Monit entry, PID file and config file name of request i's instance.
name_of(i) == instance_watch(requests[i].project, requests[i].port)

\* The add_routing thread i makes a step.
RouteStep(i) == route[i].pc # "none" /\ route'[i] # route[i]

\* C1: add_routing calls add_routing_for_appserver only after wait_on_app
\* returned true; when wait_on_app returns false the thread ends without a
\* call, and no step of the thread touches Monit's config files or entries.
C1_State ==
  \A i \in ReqIds :
    /\ route[i].calls > 0 => route[i].result = "true"
    /\ route[i].pc = "register" => route[i].result = "true"
    /\ route[i].result = "false" =>
         route[i].pc = "done" /\ route[i].calls = 0
C1_Step ==
  \A i \in ReqIds :
    RouteStep(i) =>
      monit_configs' = monit_configs /\ monit_entries' = monit_entries
C1_RegisterOnlyAfterProbe == []C1_State /\ [][C1_Step]_vars

\* C1's case: a probe failed, the thread ended, and the instance's config
\* file and Monit entry are still there.
C1_Witness ==
  \E i \in ReqIds :
    /\ route[i].result = "false"
    /\ route[i].pc = "done"
    /\ name_of(i) \in DOMAIN monit_configs
    /\ name_of(i) \in DOMAIN monit_entries

\* C2: every add_routing_for_appserver call that the thread of a successful
\* start of (P, port) makes is made while Monit has the entry of (P, port)
\* and its config file exists.
C2_RegisterOnlyWhileSupervised ==
  [][\A i \in ReqIds :
       (requests[i].response = HTTP_OK /\ route'[i].calls > route[i].calls) =>
         /\ name_of(i) \in DOMAIN monit_entries
         /\ name_of(i) \in DOMAIN monit_configs]_vars

\* C3 as stated: a finished add_routing thread has called
\* add_routing_for_appserver exactly once if the probe succeeded and not at
\* all if it failed.
C3_RegisterExactlyOnce ==
  \A i \in ReqIds :
    route[i].pc = "done" =>
      route[i].calls = IF route[i].result = "true" THEN 1 ELSE 0

\* C3 as amended: no call without a successful probe; after one, one call
\* for each NOT_READY answer and, once the thread has ended, one more.
C3_RegisterOncePerAnswer ==
  \A i \in ReqIds :
    /\ route[i].result # "true" => route[i].calls = 0
    /\ route[i].pc = "register" => route[i].calls = route[i].not_ready
    /\ route[i].pc = "done" /\ route[i].result = "true" =>
         route[i].calls = route[i].not_ready + 1

\* C3's case: the AppController answered NOT_READY and then something else.
C3_Witness ==
  \E i \in ReqIds :
    /\ route[i].pc = "done"
    /\ route[i].result = "true"
    /\ route[i].not_ready = 1
    /\ route[i].calls = 2

\* A stop_app_instance that has returned successfully.
StoppedInstance(i) ==
  /\ requests[i].kind = "stop_instance"
  /\ requests[i].pc = "done"
  /\ requests[i].response = HTTP_OK

\* C4 as stated: after a successful stop_app_instance(P, Q) the config file
\* of (P, Q) and the logrotate script of P are absent and clean_old_sources
\* has run in it.
C4_StopLeavesNothing ==
  \A i \in ReqIds :
    StoppedInstance(i) =>
      /\ name_of(i) \notin DOMAIN monit_configs
      /\ requests[i].project \notin logrotate
      /\ requests[i].cleaned

\* C4 as amended: a successful stop_app_instance whose unmonitor Monit
\* acknowledged has tried to delete the config file and has run
\* clean_old_sources, and one whose unmonitor was answered 404 has done
\* neither; the file is gone when the deletion succeeds and no config file
\* changes otherwise; no step of stop_app_instance removes the logrotate
\* script.
C4_State ==
  \A i \in ReqIds :
    StoppedInstance(i) =>
      \/ /\ requests[i].unmonitor = "ok"
         /\ requests[i].remove \in {"removed", "failed"}
         /\ requests[i].cleaned
      \/ /\ requests[i].unmonitor = "not_found"
         /\ requests[i].remove = ""
         /\ ~requests[i].cleaned
C4_Step ==
  \A i \in ReqIds :
    (requests'[i].kind = "stop_instance" /\ requests'[i] # requests[i]) =>
      /\ logrotate' = logrotate
      /\ IF requests[i].kind = "none" /\ requests'[i].remove = "removed"
           THEN LET name == instance_watch(requests'[i].project,
                                           requests'[i].port)
                IN /\ name \in DOMAIN monit_configs
                   /\ DOMAIN monit_configs' = DOMAIN monit_configs \ {name}
           ELSE monit_configs' = monit_configs
C4_StopInstanceEffects == []C4_State /\ [][C4_Step]_vars

\* C4's case: a stop whose unmonitor was acknowledged has returned; the
\* config file is gone, clean_old_sources has run, the logrotate script of
\* the project is still there.
C4_Witness ==
  \E i \in ReqIds :
    /\ StoppedInstance(i)
    /\ requests[i].unmonitor = "ok"
    /\ requests[i].remove = "removed"
    /\ requests[i].cleaned
    /\ name_of(i) \notin DOMAIN monit_configs
    /\ requests[i].project \in logrotate

\* clean_old_sources of request i calls clean_old_revisions.
CleanStep(i) == requests[i].pc = "clean" /\ requests'[i].pc = "return"

\* C5: the active set clean_old_sources passes holds the revision key each
\* entry Monit listed and still monitors was started from, and every
\* revision key of the projects manager.
C5_ActiveSetCoversLive ==
  [][\A i \in ReqIds :
       CleanStep(i) =>
         /\ \A name \in requests[i].entries \cap DOMAIN monit_entries :
              (/\ startswith(name, MONIT_INSTANCE_PREFIX)
               /\ monit_entries[name].monitored) =>
                monit_entries[name].rev \in gc_active'
         /\ \A key \in VersionKeys :
              revision_key_of(key[1], key[2], key[3], revision[key])
                \in gc_active']_vars

\* C6: when start_app writes the config file and Monit starts the entry,
\* the source of the revision key it starts is unpacked.
C6_SourceExistsAtStart ==
  [][\A i \in ReqIds :
       (/\ requests[i].pc = "resume"
        /\ requests'[i].monit = "started") =>
         requests[i].revision_key \in trees]_vars

\* How many 503 answers come before the first other answer.
Leading503(ans) ==
  CHOOSE n \in 0..Len(ans) :
    /\ \A k \in 1..n : ans[k] = 503
    /\ n = Len(ans) \/ ans[n + 1] # 503

\* C7: unmonitor makes up to 5 retries on 503.  With at most 5 answers of
\* 503 first, the next answer decides: 200 lets the stop go on, 404 ends it
\* with success, any other status is raised at once; with 503 six times the
\* 503 is raised and the stop fails.
C7_UnmonitorRetries ==
  outcome.call = "unmonitor" =>
    LET n == Leading503(answers)
    IN IF n > UNMONITOR_RETRIES
         THEN /\ outcome.exc = HTTPError(503)
              /\ outcome.calls = UNMONITOR_RETRIES + 1
              /\ outcome.response = INTERNAL_ERROR
         ELSE /\ outcome.calls = n + 1
              /\ answers[n + 1] = HTTP_OK =>
                   outcome.exc = NoException /\ outcome.response = 0
              /\ answers[n + 1] = 404 =>
                   outcome.exc = ProcessNotFound
                   /\ outcome.response = HTTP_OK
              /\ answers[n + 1] \notin {HTTP_OK, 404} =>
                   /\ outcome.exc = HTTPError(answers[n + 1])
                   /\ outcome.response = INTERNAL_ERROR

\* C7's case: five answers of 503 and then 200: six POSTs, no exception.
C7_Witness ==
  /\ outcome.call = "unmonitor"
  /\ Leading503(answers) = UNMONITOR_RETRIES
  /\ answers[UNMONITOR_RETRIES + 1] = HTTP_OK
  /\ outcome.exc = NoException
  /\ outcome.calls = UNMONITOR_RETRIES + 1

\* A start of a Java version whose max_memory is at most 250.
SmallJavaStart(req) ==
  /\ req.kind = "start"
  /\ req.max_memory > 0
  /\ req.max_memory <= JAVA_OVERHEAD
  /\ version_runtime(<<req.project, Svc, req.version>>) = "java"

\* C8: a Java start with max_memory <= 250 never gets an add_routing thread,
\* none of its steps changes a config file or an entry of Monit, and it ends
\* with BadConfigurationException (or with the failure of ensure_source).
C8_State ==
  \A i \in ReqIds :
    SmallJavaStart(requests[i]) =>
      /\ route[i].pc = "none"
      /\ requests[i].pc = "done" =>
           /\ requests[i].error \in {BadConfigurationException, SourceError}
           /\ requests[i].response # HTTP_OK
C8_Step ==
  \A i \in ReqIds :
    (SmallJavaStart(requests'[i]) /\ requests'[i] # requests[i]) =>
      /\ monit_configs' = monit_configs
      /\ monit_entries' = monit_entries
      /\ route' = route
      /\ (requests[i].pc = "resume" =>
            requests'[i].error = BadConfigurationException)
C8_SmallJavaRejected == []C8_State /\ [][C8_Step]_vars

\* C8's case: a Java start with max_memory = 250 was rejected.
C8_Witness ==
  \E i \in ReqIds :
    /\ SmallJavaStart(requests[i])
    /\ requests[i].max_memory = JAVA_OVERHEAD
    /\ requests[i].pc = "done"
    /\ requests[i].error = BadConfigurationException

\* A finished start whose config misses a key, whose project ID is invalid,
\* whose version is unknown, or whose runtime is unknown.
BadStart(req) ==
  /\ req.kind = "start"
  /\ req.pc = "done"
  /\ \/ req.keys # AllKeys
     \/ ~is_app_name_valid(req.project)
     \/ <<req.project, Svc, req.version>> \notin VersionKeys
     \/ /\ version_runtime(<<req.project, Svc, req.version>>)
             \notin {"python27", "go", "php", "java"}
        /\ req.error # SourceError

\* C9: such a start is answered with 400, and gets no add_routing thread.
C9_BadStartAnswered400 ==
  \A i \in ReqIds :
    BadStart(requests[i]) =>
      requests[i].response = BAD_REQUEST /\ route[i].pc = "none"

\* C10 as stated: wait_on_app returns true exactly when one of the attempts
\* of its budget gets a 2xx or 3xx response.
C10_TrueOnlyOn2xx3xx ==
  outcome.call = "wait_on_app" =>
    ((outcome.result = "true") <=>
       \E k \in 1..ProbeBudget : answers[k] >= 200 /\ answers[k] < 400)

\* C10 as amended: wait_on_app returns true at the first attempt of its
\* budget that gets a response of any status, each IOError before it having
\* taken one attempt, and false after a budget of IOErrors.
C10_TrueOnFirstResponse ==
  outcome.call = "wait_on_app" =>
    LET answered == {k \in 1..ProbeBudget : answers[k] # 0}
    IN IF answered # {}
         THEN /\ outcome.result = "true"
              /\ outcome.calls \in answered
              /\ \A k \in answered : outcome.calls <= k
         ELSE /\ outcome.result = "false"
              /\ outcome.calls = ProbeBudget

\* C10's case: an IOError and then a response of status 500.
C10_Witness ==
  /\ outcome.call = "wait_on_app"
  /\ answers[1] = 0
  /\ answers[2] = 500
  /\ outcome.result = "true"
  /\ outcome.calls = 2

\* Request i is a start_app and makes a step.
StartStep(i) == requests'[i].kind = "start" /\ requests'[i] # requests[i]

\* C11: within one start_app, ensure_source has returned before the config
\* file is written, the file is written when Monit is asked to start the
\* entry, the add_routing thread is started only once Monit has started the
\* entry, and the config file is there when start_app returns successfully.
C11_State ==
  \A i \in ReqIds :
    (requests[i].kind = "start" /\ requests[i].response = HTTP_OK) =>
      /\ requests[i].monit = "started"
      /\ route[i].pc # "none"
C11_Step ==
  \A i \in ReqIds :
    StartStep(i) =>
      LET name == instance_watch(requests'[i].project, requests'[i].port)
      IN /\ requests'[i].pc = "resume" =>
              /\ requests[i].pc = "ensure_source"
              /\ requests'[i].revision_key \in trees'
         /\ monit_configs' # monit_configs => requests[i].pc = "resume"
         /\ requests'[i].monit # requests[i].monit =>
              /\ requests[i].pc = "resume"
              /\ name \in DOMAIN monit_configs'
         /\ route'[i] # route[i] =>
              /\ requests[i].pc = "resume"
              /\ route[i].pc = "none"
              /\ requests'[i].monit = "started"
         /\ requests'[i].response = HTTP_OK =>
              /\ requests[i].pc = "logrotate"
              /\ name \in DOMAIN monit_configs'
C11_StartStepsOrdered == []C11_State /\ [][C11_Step]_vars

\* C11's case: a start_app has returned successfully and its config file is
\* there.
C11_Witness ==
  \E i \in ReqIds :
    /\ requests[i].kind = "start"
    /\ requests[i].response = HTTP_OK
    /\ requests[i].monit = "started"
    /\ name_of(i) \in DOMAIN monit_configs
    /\ requests[i].revision_key \in trees

\* A start_app whose monit_interface.start returned false.
FailedMonitStart(req) == req.kind = "start" /\ req.monit = "failed"

\* C12: a start_app whose monit_interface.start returned false ends with an
\* error that is answered with 500; it starts no add_routing thread, so no
\* routing is registered for it, and it does not write the logrotate script.
C12_State ==
  \A i \in ReqIds :
    FailedMonitStart(requests[i]) =>
      /\ requests[i].pc = "done"
      /\ requests[i].error = AssertionError
      /\ requests[i].response = INTERNAL_ERROR
      /\ requests[i].rotate = ""
      /\ route[i] = NoRoute
C12_Step ==
  \A i \in ReqIds :
    (FailedMonitStart(requests'[i]) /\ ~FailedMonitStart(requests[i])) =>
      logrotate' = logrotate /\ route' = route
C12_FailedMonitStartIsFatal == []C12_State /\ [][C12_Step]_vars

\* C12's case: Monit failed to start the entry of a project that has no
\* logrotate script; the config file written for it is left behind.
C12_Witness ==
  \E i \in ReqIds :
    /\ FailedMonitStart(requests[i])
    /\ requests[i].response = INTERNAL_ERROR
    /\ name_of(i) \in DOMAIN monit_configs
    /\ requests[i].project \notin logrotate

\* C13: a start_app whose Monit start succeeded returns successfully when
\* the logrotate script cannot be written, and a stop_app that came to its
\* end returns successfully when the script cannot be removed.
C13_LogrotateFailureIgnored ==
  \A i \in ReqIds :
    /\ (/\ requests[i].kind = "start"
        /\ requests[i].pc = "done"
        /\ requests[i].monit = "started"
        /\ requests[i].rotate = "failed") =>
         requests[i].response = HTTP_OK
    /\ (/\ requests[i].kind = "stop_app"
        /\ requests[i].pc = "done"
        /\ requests[i].rotate = "failed"
        /\ requests[i].cleaned) =>
         requests[i].response = HTTP_OK

\* A start_app that has returned successfully.
StartedInstance(i) ==
  /\ requests[i].kind = "start"
  /\ requests[i].pc = "done"
  /\ requests[i].response = HTTP_OK

\* C14: once Monit has started the entry, start_app can return whatever its
\* add_routing thread has come to; its return leaves the thread as it is and
\* is a success when the logrotate script is written; and no step of the
\* thread changes a request.
C14_State ==
  \A i \in ReqIds :
    requests[i].pc = "logrotate" =>
      /\ requests[i].monit = "started"
      /\ ENABLED StartAppLogrotate(i, TRUE)
C14_Step ==
  \A i \in ReqIds :
    /\ (requests[i].pc = "logrotate" /\ requests'[i].pc = "done") =>
         /\ route' = route
         /\ requests'[i].rotate = "written" =>
              requests'[i].response = HTTP_OK
    /\ RouteStep(i) => requests' = requests
C14_ReturnsWithoutWaiting == []C14_State /\ [][C14_Step]_vars

\* C14's case: two starts have returned successfully; the probe of the one
\* has failed for good, and the thread of the other is still probing.
C14_Witness ==
  \E i, j \in ReqIds :
    /\ StartedInstance(i)
    /\ StartedInstance(j)
    /\ route[i].result = "false"
    /\ route[j].pc = "probe"

\* C14's other case: a start has returned successfully and its thread goes
\* on calling an AppController that has answered NOT_READY so far.
C14_NotReadyWitness ==
  \E i \in ReqIds :
    /\ StartedInstance(i)
    /\ route[i].pc = "register"
    /\ route[i].not_ready = MaxNotReady

\* C15: every add_routing_for_appserver call that is answered NOT_READY is
\* followed by another call, whatever the number of such answers so far;
\* the first other answer ends the thread, and an ended thread makes no
\* call.
C15_Step ==
  \A i \in ReqIds :
    /\ (route[i].pc = "register" /\ route'[i] # route[i]) =>
         /\ route'[i].calls = route[i].calls + 1
         /\ route'[i].not_ready = route[i].not_ready + 1 =>
              route'[i].pc = "register"
         /\ route'[i].not_ready = route[i].not_ready =>
              route'[i].pc = "done"
    /\ route[i].pc = "done" => route'[i] = route[i]
C15_State ==
  \A i \in ReqIds :
    route[i].pc = "register" =>
      /\ ENABLED AddRoutingCall(i, "OK")
      /\ route[i].calls = route[i].not_ready
C15_RetriesUntilAnswered == []C15_State /\ [][C15_Step]_vars

\* C15's case: the AppController has answered NOT_READY, and the thread is
\* about to call it again.
C15_Witness ==
  \E i \in ReqIds :
    /\ route[i].pc = "register"
    /\ route[i].not_ready = MaxNotReady
    /\ route[i].calls = MaxNotReady
    /\ ENABLED AddRoutingCall(i, "ERROR")

\* Request i is a stop_app_instance that begins in this step, for a valid
\* project ID and an instance that has no PID file.
StopWithoutPidfile(i) ==
  /\ requests[i].kind = "none"
  /\ requests'[i].kind = "stop_instance"
  /\ is_app_name_valid(requests'[i].project)
  /\ instance_watch(requests'[i].project, requests'[i].port) \notin pidfiles

\* C16: a stop_app_instance that finds no PID file ends at once with
\* HTTPError(INTERNAL_ERROR): it has not called unmonitor, it leaves Monit's
\* config files and entries as they are, it does not run clean_old_sources,
\* and it starts no kill_instance thread.
C16_Step ==
  \A i \in ReqIds :
    StopWithoutPidfile(i) =>
      /\ requests'[i].pc = "done"
      /\ requests'[i].error = HTTPError(INTERNAL_ERROR)
      /\ requests'[i].response = INTERNAL_ERROR
      /\ requests'[i].unmonitor = ""
      /\ requests'[i].remove = ""
      /\ ~requests'[i].cleaned
      /\ monit_configs' = monit_configs
      /\ monit_entries' = monit_entries
      /\ trees' = trees
      /\ kill' = kill
C16_State ==
  \A i \in ReqIds :
    (requests[i].kind = "stop_instance" /\ requests[i].unmonitor = "") =>
      /\ requests[i].pc = "done"
      /\ ~requests[i].cleaned
      /\ kill[i] = NoKill
C16_NoPidfileFailsFirst == []C16_State /\ [][C16_Step]_vars

\* C16's case: an instance whose config file and Monit entry exist, but
\* which has no PID file, was to be stopped; the stop failed with 500 and
\* file and entry are still there.
C16_Witness ==
  \E i \in ReqIds :
    /\ requests[i].kind = "stop_instance"
    /\ requests[i].error = HTTPError(INTERNAL_ERROR)
    /\ requests[i].unmonitor = ""
    /\ name_of(i) \notin pidfiles
    /\ name_of(i) \in DOMAIN monit_configs
    /\ name_of(i) \in DOMAIN monit_entries

\* Request j is a stop_app_instance that begins in this step, and the
\* earlier request i is a stop_app_instance of the same instance that
\* returned successfully, with no start_app of the instance after it.
SecondStop(i, j) ==
  /\ i < j
  /\ StoppedInstance(i)
  /\ requests[j].kind = "none"
  /\ requests'[j].kind = "stop_instance"
  /\ requests'[j].project = requests[i].project
  /\ requests'[j].port = requests[i].port
  /\ \A k \in ReqIds :
       (i < k /\ k < j) =>
         ~(/\ requests[k].kind = "start"
           /\ requests[k].project = requests[i].project
           /\ requests[k].port = requests[i].port)

\* C17 as stated: the second of two stop_app_instance calls for an instance
\* finds no PID file and ends with an internal error.
C17_SecondStopFails ==
  [][\A i, j \in ReqIds :
       SecondStop(i, j) =>
         /\ requests'[j].unmonitor = ""
         /\ requests'[j].response = INTERNAL_ERROR]_vars

\* C17 as amended: no step of a request or of a kill_instance thread takes
\* a PID file away, and a PID file goes only once the process is gone.  A
\* second stop_app_instance that still finds the PID file calls unmonitor
\* again: it returns successfully at once when Monit answers 404, goes on to
\* delete the config file when Monit acknowledges, and fails when Monit
\* answers with an error.  It ends with an internal error without calling
\* unmonitor only when the PID file is gone.
C17_Step ==
  /\ pidfiles' # pidfiles =>
       /\ requests' = requests
       /\ kill' = kill
       /\ \A name \in pidfiles \ pidfiles' : name \notin procs
  /\ \A i, j \in ReqIds :
       SecondStop(i, j) =>
         LET name == instance_watch(requests'[j].project, requests'[j].port)
             second == requests'[j]
         IN IF name \in pidfiles
              THEN /\ second.unmonitor \in {"ok", "not_found", "error"}
                   /\ second.unmonitor = "not_found" =>
                        /\ second.pc = "done"
                        /\ second.response = HTTP_OK
                        /\ name \notin DOMAIN monit_entries
                   /\ second.unmonitor = "ok" =>
                        /\ second.pc = "get_entries"
                        /\ name \in DOMAIN monit_entries
                   /\ second.unmonitor = "error" =>
                        /\ second.pc = "done"
                        /\ second.response = INTERNAL_ERROR
              ELSE /\ second.unmonitor = ""
                   /\ second.response = INTERNAL_ERROR
C17_SecondStopFindsPidfile == [][C17_Step]_vars

\* C17's case: the first stop returned and its kill_instance thread has not
\* killed the process yet; the second stop found the PID file, was answered
\* 404 by Monit, and returned successfully.
C17_Witness ==
  \E i, j \in ReqIds :
    /\ i < j
    /\ StoppedInstance(i)
    /\ StoppedInstance(j)
    /\ name_of(i) = name_of(j)
    /\ requests[i].unmonitor = "ok"
    /\ requests[j].unmonitor = "not_found"
    /\ kill[i].pc \in {"terminate", "wait"}
    /\ name_of(i) \in procs

\* A stop_app that has returned successfully.
StoppedApp(i) ==
  /\ requests[i].kind = "stop_app"
  /\ requests[i].pc = "done"
  /\ requests[i].response = HTTP_OK

\* The config files of the instances of request i's project.
project_configs(i) ==
  {name \in DOMAIN monit_configs :
     monit_configs[name].group = group_watch(requests[i].project)}

\* C18 as stated: after a successful stop_app(P) no config file of an
\* instance of P and no logrotate script of P is left, and
\* clean_old_sources has run.
C18_StopAppLeavesNothing ==
  \A i \in ReqIds :
    StoppedApp(i) =>
      /\ project_configs(i) = {}
      /\ requests[i].project \notin logrotate
      /\ requests[i].cleaned

\* Request i is a stop_app that begins in this step.
StopAppStep(i) ==
  requests[i].kind = "none" /\ requests'[i].kind = "stop_app"

\* C18 as amended: stop_app(P) asks Monit once to stop the group; when that
\* fails it ends with HTTPError(INTERNAL_ERROR) and leaves config files,
\* logrotate scripts and source trees alone.  When it succeeds the step
\* tries to delete every config file that matches appscale-app___P-*.cfg
\* and the logrotate script of P: the files are gone when the deletions
\* succeed and stay when they fail; Monit's entries stay loaded, as no reload
\* is made; and a stop_app that returns successfully has run
\* clean_old_sources.
C18_State ==
  \A i \in ReqIds :
    /\ StoppedApp(i) =>
         /\ requests[i].monit = "stopped"
         /\ requests[i].remove \in {"removed", "failed"}
         /\ requests[i].rotate \in {"removed", "failed"}
         /\ requests[i].cleaned
    /\ (requests[i].kind = "stop_app" /\ requests[i].monit = "failed") =>
         /\ requests[i].pc = "done"
         /\ requests[i].response = INTERNAL_ERROR
         /\ ~requests[i].cleaned
C18_Step ==
  \A i \in ReqIds :
    StopAppStep(i) =>
      LET req == requests'[i]
          watch == group_watch(req.project)
          files == {name \in DOMAIN monit_configs : glob_matches(name, watch)}
      IN /\ DOMAIN monit_entries' = DOMAIN monit_entries
         /\ trees' = trees
         /\ kill' = kill
         /\ req.monit = "stopped" =>
              /\ \A name \in DOMAIN monit_entries :
                   monit_entries[name].group = watch =>
                     ~monit_entries'[name].monitored
              /\ DOMAIN monit_configs' =
                   IF req.remove = "removed"
                     THEN DOMAIN monit_configs \ files
                     ELSE DOMAIN monit_configs
              /\ logrotate' =
                   IF req.rotate = "removed"
                     THEN logrotate \ {req.project}
                     ELSE logrotate
         /\ req.monit # "stopped" =>
              /\ monit_configs' = monit_configs
              /\ monit_entries' = monit_entries
              /\ logrotate' = logrotate
              /\ req.pc = "done"
C18_StopAppEffects == []C18_State /\ [][C18_Step]_vars

\* C18's case: a stop_app of a project with a running instance returned
\* successfully; its config files and logrotate script are gone, and Monit
\* still has the entry.
C18_Witness ==
  \E i \in ReqIds :
    /\ StoppedApp(i)
    /\ requests[i].remove = "removed"
    /\ requests[i].rotate = "removed"
    /\ project_configs(i) = {}
    /\ requests[i].project \notin logrotate
    /\ \E name \in DOMAIN monit_entries :
         monit_entries[name].group = group_watch(requests[i].project)

\* C19: every app___ entry that Monit monitors has its config file.  (The
\* claim asks for the PID file as well.)
C19_LiveEntryHasConfig ==
  \A name \in DOMAIN monit_entries :
    (startswith(name, MONIT_INSTANCE_PREFIX) /\ monit_entries[name].monitored)
      => name \in DOMAIN monit_configs

\* C20: a stop_app_instance whose unmonitor Monit acknowledged has, once it
\* has ended, started the kill_instance thread that terminates the process.
\* (Without that thread nothing sends the process a signal, so it is not
\* "eventually no longer running".)
C20_StopStartsKillInstance ==
  \A i \in ReqIds :
    (/\ requests[i].kind = "stop_instance"
     /\ requests[i].unmonitor = "ok"
     /\ requests[i].pc = "done") =>
      kill[i].pc # "none"


(***************************************************************************)
(* A stop_app_instance that races a start_app of the same instance.        *)
(***************************************************************************)
\* Request i is a start_app of the instance `name` that has not yet written
\* the config file.
StartBeforeConfig(i, name) ==
  /\ requests[i].kind = "start"
  /\ requests[i].pc \in {"ensure_source", "resume"}
  /\ instance_watch(requests[i].project, requests[i].port) = name

\* Request j is a stop_app_instance whose unmonitor Monit answered with 404.
StopNotFound(j) ==
  /\ requests[j].kind = "stop_instance"
  /\ requests[j].unmonitor = "not_found"

\* A stop_app_instance or a stop_app.
IsStop(k) == requests[k].kind \in {"stop_instance", "stop_app"}

\* The stop begins while the start is in flight and Monit has no entry for
\* the instance: unless Monit answers with an error, the stop returns 200 at
\* once and leaves the start, the config files, Monit's entries and the
\* processes as they are.
C21_StopStep(i, j) ==
  LET name == instance_watch(requests'[j].project, requests'[j].port)
  IN (/\ requests[j].kind = "none"
      /\ requests'[j].kind = "stop_instance"
      /\ StartBeforeConfig(i, name)
      /\ name \in pidfiles
      /\ name \notin DOMAIN monit_entries
      /\ requests'[j].unmonitor # "error")
     => /\ requests'[j].unmonitor = "not_found"
        /\ requests'[j].pc = "done"
        /\ requests'[j].response = HTTP_OK
        /\ requests'[i] = requests[i]
        /\ UNCHANGED <<monit_configs, monit_entries, procs, kill>>

\* The start goes on after such a stop: when Monit starts the entry, the
\* config file is written, the entry is monitored and the start has its
\* add_routing thread, while the stop stays as it returned.
C21_StartStep(i, j) ==
  (/\ StopNotFound(j)
   /\ StartBeforeConfig(i, name_of(j))
   /\ requests[i].pc = "resume"
   /\ requests'[i].monit = "started")
  => /\ name_of(j) \in DOMAIN monit_configs'
     /\ monit_configs'[name_of(j)].rev = requests[i].revision_key
     /\ name_of(j) \in DOMAIN monit_entries'
     /\ monit_entries'[name_of(j)].monitored
     /\ route'[i] # NoRoute
     /\ requests'[j] = requests[j]
     /\ kill'[j] = NoKill

\* Afterwards, as long as no other stop has been requested, the config file
\* exists, Monit monitors the entry, and the stop has deleted nothing and
\* started no kill_instance thread.
C21_State(i, j) ==
  (/\ StopNotFound(j)
   /\ requests[i].kind = "start"
   /\ requests[i].monit = "started"
   /\ name_of(i) = name_of(j)
   /\ \A k \in ReqIds \ {i, j} : ~IsStop(k))
  => /\ name_of(i) \in DOMAIN monit_configs
     /\ name_of(i) \in DOMAIN monit_entries
     /\ monit_entries[name_of(i)].monitored
     /\ requests[j].remove = ""
     /\ ~requests[j].cleaned
     /\ kill[j] = NoKill

\* C21: when a stop_app_instance(P, port) races a start_app(P, port) and
\* Monit answers the stop's unmonitor with 404 before the start has written
\* the config file, the start still completes and the instance lives: the
\* config file exists, Monit has been asked to start the entry, and the stop
\* has neither deleted the config file nor killed the process.
C21_StopRacingStart ==
  /\ [](\A i, j \in ReqIds : C21_State(i, j))
  /\ [][\A i, j \in ReqIds : C21_StopStep(i, j) /\ C21_StartStep(i, j)]_vars

\* The start began first, the stop found no entry, and the start has
\* returned 200 with the config file and the monitored entry in place.
C21_Witness ==
  \E i, j \in ReqIds :
    /\ i < j
    /\ StopNotFound(j)
    /\ requests[i].kind = "start"
    /\ requests[i].monit = "started"
    /\ requests[i].pc = "done"
    /\ requests[i].response = HTTP_OK
    /\ name_of(i) = name_of(j)
    /\ name_of(i) \in DOMAIN monit_configs
    /\ monit_entries[name_of(i)].monitored
    /\ kill[j] = NoKill


(***************************************************************************)
(* Starting the same instance twice.                                       *)
(***************************************************************************)
\* Request i is a start_app that has written its config file and asked Monit
\* to start the entry.
ConfigWritten(i) == requests[i].kind = "start" /\ requests[i].monit # ""

\* The config file that start_app request i writes.
request_config(i) ==
  config_of(requests[i].project, requests[i].port, requests[i].revision_key)

\* The step in which start_app request j writes its config file and asks
\* Monit to start the entry: afterwards there is the one config file of the
\* instance, holding what j wrote, and the other files are as they were;
\* when Monit starts the entry there is the one monitored entry of the
\* instance, loaded from that file, the other entries are as they were, no
\* process has been started or stopped, and j has a new add_routing thread of
\* its own while the other threads are as they were.
C22_Step(j) ==
  LET name == name_of(j)
  IN (requests[j].pc = "resume" /\ requests'[j].monit # "")
     => /\ DOMAIN monit_configs' = DOMAIN monit_configs \cup {name}
        /\ monit_configs'[name] = request_config(j)
        /\ \A other \in DOMAIN monit_configs \ {name} :
             monit_configs'[other] = monit_configs[other]
        /\ procs' = procs
        /\ requests'[j].monit = "started"
             => /\ DOMAIN monit_entries' = DOMAIN monit_entries \cup {name}
                /\ monit_entries'[name] = entry_of(request_config(j), TRUE)
                /\ \A other \in DOMAIN monit_entries \ {name} :
                     monit_entries'[other] = monit_entries[other]
                /\ route[j] = NoRoute
                /\ route'[j] = new_route
                /\ \A i \in ReqIds \ {j} : route'[i] = route[i]

\* The second start of an instance that is already started from the same
\* config file changes neither the config files nor Monit's entries.
C22_SecondStep(j) ==
  LET name == name_of(j)
  IN (/\ requests[j].pc = "resume"
      /\ requests'[j].monit = "started"
      /\ name \in DOMAIN monit_configs
      /\ monit_configs[name] = request_config(j)
      /\ name \in DOMAIN monit_entries
      /\ monit_entries[name] = entry_of(request_config(j), TRUE))
     => UNCHANGED <<monit_configs, monit_entries, procs>>

\* Two starts of the same instance have each started an add_routing thread.
C22_State(i, j) ==
  (/\ i # j
   /\ ConfigWritten(i) /\ requests[i].monit = "started"
   /\ ConfigWritten(j) /\ requests[j].monit = "started"
   /\ name_of(i) = name_of(j))
  => route[i] # NoRoute /\ route[j] # NoRoute

\* C22: starting the same (P, port) twice leaves the same supervisor state
\* as starting it once: there is a single config file and a single entry of
\* Monit for app___P-port, the second start of the already-started entry
\* changes nothing, and each of the two starts runs its own add_routing
\* thread.
C22_SecondStartChangesNothing ==
  /\ [](\A i, j \in ReqIds : C22_State(i, j))
  /\ [][\A j \in ReqIds : C22_Step(j) /\ C22_SecondStep(j)]_vars

\* Two starts of the same instance and revision have both returned 200:
\* there is the one config file and the one monitored entry, and both
\* threads have been started.
C22_Witness ==
  \E i, j \in ReqIds :
    /\ i < j
    /\ ConfigWritten(i) /\ requests[i].monit = "started"
    /\ ConfigWritten(j) /\ requests[j].monit = "started"
    /\ requests[i].response = HTTP_OK
    /\ requests[j].response = HTTP_OK
    /\ name_of(i) = name_of(j)
    /\ request_config(i) = request_config(j)
    /\ monit_configs[name_of(i)] = request_config(j)
    /\ monit_entries[name_of(i)] = entry_of(request_config(j), TRUE)
    /\ route[i] # NoRoute
    /\ route[j] # NoRoute


(***************************************************************************)
(* The config files that stop_app deletes.                                 *)
(***************************************************************************)
\* The config files of the instances that Monit monitors for the projects
\* other than project_id.
other_project_configs(project_id) ==
  {name \in DOMAIN monit_configs :
     /\ monit_configs[name].group # group_watch(project_id)
     /\ name \in DOMAIN monit_entries
     /\ monit_entries[name].monitored}

\* C23: stop_app(P) deletes the config files of the instances of P only:
\* the config files of every other project, one whose ID is P followed by a
\* hyphen and more included, are unchanged by stop_app(P).  (Stated for the
\* instances of the other projects that Monit monitors.)
C23_StopAppKeepsOtherProjects ==
  [][\A i \in ReqIds :
       StopAppStep(i) =>
         \A name \in other_project_configs(requests'[i].project) :
           /\ name \in DOMAIN monit_configs'
           /\ monit_configs'[name] = monit_configs[name]]_vars


(***************************************************************************)
(* When kill_instance terminates the process.                              *)
(***************************************************************************)
\* Monit monitors the entry `name`, and so restarts its process.
Monitored(name) ==
  name \in DOMAIN monit_entries /\ monit_entries[name].monitored

\* The kill_instance thread of stop request i sends SIGTERM in this step.
SigtermStep(i) ==
  kill[i].pc = "terminate" /\ kill'[i].signals = <<"SIGTERM">>

\* A start_app of the instance `name` has written its config file and asked
\* Monit to start the entry.
Restarted(name) ==
  \E k \in ReqIds : ConfigWritten(k) /\ name_of(k) = name

\* What stop_app_instance has done when its kill_instance thread exists:
\* Monit acknowledged the unmonitor, the deletion of the config file was
\* tried (the reload follows it in the same step), clean_old_sources has
\* completed and the handler has returned.
C24_Ordered(i) ==
  /\ requests[i].kind = "stop_instance"
  /\ requests[i].unmonitor = "ok"
  /\ requests[i].remove \in {"removed", "failed"}
  /\ requests[i].cleaned
  /\ requests[i].pc = "done"

C24_State ==
  \A i \in ReqIds :
    /\ kill[i] # NoKill => C24_Ordered(i)
    /\ (kill[i].signals # <<>> /\ ~Restarted(name_of(i)))
         => /\ ~Monitored(name_of(i))
            /\ ~ENABLED MonitStartsProcess(name_of(i))

\* The step of stop_app_instance in which Monit acknowledges the unmonitor
\* leaves the entry unmonitored or gone, whether the deletion and the reload
\* succeed or not, and starts no thread.
C24_UnmonitorStep(i) ==
  (/\ requests[i].kind = "none"
   /\ requests'[i].kind = "stop_instance"
   /\ requests'[i].unmonitor = "ok")
  => LET name == instance_watch(requests'[i].project, requests'[i].port)
     IN /\ name \in DOMAIN monit_entries
        /\ ~(name \in DOMAIN monit_entries' /\ monit_entries'[name].monitored)
        /\ kill'[i] = NoKill

\* Monit comes to monitor an entry again only once a start_app of that
\* instance has written its config file.
C24_MonitoredStep(name) ==
  (/\ ~Monitored(name)
   /\ name \in DOMAIN monit_entries' /\ monit_entries'[name].monitored)
  => \E k \in ReqIds :
       /\ requests'[k].kind = "start"
       /\ requests'[k].monit # ""
       /\ instance_watch(requests'[k].project, requests'[k].port) = name

C24_SigtermStep(i) ==
  SigtermStep(i) =>
    /\ C24_Ordered(i)
    /\ ~Restarted(name_of(i)) => ~Monitored(name_of(i))

StopUnknownEntryStep(i) ==
  LET name == instance_watch(requests'[i].project, requests'[i].port)
  IN /\ requests[i].kind = "none"
     /\ requests'[i].kind = "stop_instance"
     /\ is_app_name_valid(requests'[i].project)
     /\ name \in pidfiles
     /\ name \notin DOMAIN monit_entries
     /\ requests'[i].error.class # HTTPError(INTERNAL_ERROR).class

\* That step is the whole stop: it returns 200 and changes no config file,
\* no entry of Monit (no reload), no source tree (no clean_old_sources), no
\* process, no PID file and no logrotate script, and starts no kill_instance
\* thread.
C25_Step(i) ==
  StopUnknownEntryStep(i) =>
    /\ requests'[i].unmonitor = "not_found"
    /\ requests'[i].pc = "done"
    /\ requests'[i].error = NoException
    /\ requests'[i].response = HTTP_OK
    /\ UNCHANGED <<monit_configs, monit_entries, trees, gc_active, procs,
                   pidfiles, logrotate, kill, route>>

\* Such a stop has deleted nothing, has not run clean_old_sources, and has
\* no kill_instance thread, then or later.
C25_State(i) ==
  StopNotFound(i) =>
    /\ requests[i].pc = "done"
    /\ requests[i].response = HTTP_OK
    /\ requests[i].remove = ""
    /\ requests[i].entries = {}
    /\ ~requests[i].cleaned
    /\ kill[i] = NoKill

\* C25: when unmonitor reports that Monit does not know the entry (404),
\* stop_app_instance returns success at once and changes nothing else: it
\* does not delete the config file, does not reload Monit, does not run
\* clean_old_sources, and does not signal the process whose PID it read.
C25_NotFoundChangesNothing ==
  /\ [](\A i \in ReqIds : C25_State(i))
  /\ [][\A i \in ReqIds : C25_Step(i)]_vars

\* A stop that Monit answered with 404 has returned 200 while the config
\* file and the PID file of its instance are there.
C25_Witness ==
  \E i \in ReqIds :
    /\ StopNotFound(i)
    /\ requests[i].response = HTTP_OK
    /\ name_of(i) \in DOMAIN monit_configs
    /\ name_of(i) \in pidfiles
    /\ name_of(i) \notin DOMAIN monit_entries
    /\ kill[i] = NoKill


(***************************************************************************)
(* Where a Java start looks for appengine-web.xml.                         *)
(***************************************************************************)
\* Request i is a Java start_app that has looked for appengine-web.xml while
\* the unpacked tree of its revision held one.
JavaStartWithWebXml(i) ==
  /\ requests[i].kind = "start"
  /\ revision_base(requests[i].revision_key) \in requests[i].web_xml

\* C26: a Java start whose revision tree (UNPACK_ROOT/<revisionKey>) holds
\* WEB-INF/appengine-web.xml is not rejected with BadConfigurationException
\* for a missing file, and its environment comes from the file of that tree,
\* the tree the start command launches.
C26_WebXmlFromRevisionTree ==
  \A i \in ReqIds :
    JavaStartWithWebXml(i) =>
      /\ requests[i].error # BadConfigurationException
      /\ requests[i].env_from = revision_base(requests[i].revision_key)

====
